---- MODULE Spec2Model ----
(***************************************************************************)
(* State-machine model of the bucket file server (signalor/static):        *)
(*   - config/env.ts        validateEnv: bucket whitelist and alias maps   *)
(*   - services/s3.service  S3Service: name resolution, storage gateway    *)
(*   - middleware/rateLimiter.ts  setupRateLimiters / createLimiter        *)
(*   - middleware/auth.ts   sessions, validateToken, authMiddleware        *)
(*   - routes/api.ts, routes/proxy.ts  the routes and their middlewares    *)
(* Strings of the program are sequences of one-character strings, so that  *)
(* split, trim and filter are computed as the code computes them.          *)
(***************************************************************************)
EXTENDS Integers, Sequences, FiniteSets, TLC

\* ------------------------------------------------------------------ bounds
\* Most comma-separated entries in BUCKET_NAMES / FRIENDLY_BUCKET_NAMES.
MaxBuckets == 2

\* Entries as written in the environment: empty, two names, a padded name.
RawEntries == {<<>>, <<"a">>, <<"b">>, <<" ", "a", " ">>}

\* An environment value: its entries joined by commas (the empty value, which
\* is also what an unset variable reads as, is the single empty entry).
RECURSIVE join(_)
join(entries) ==
  IF Len(entries) = 1 THEN entries[1]
  ELSE entries[1] \o <<",">> \o join(Tail(entries))

EnvStrings ==
  {join(entries) : entries \in UNION {[1..n -> RawEntries] : n \in 1..MaxBuckets}}

\* Bucket names a caller may send: empty, blank, letters, two letters.
QueryNames == {<<>>, <<" ">>, <<"a">>, <<"b">>, <<"a", "b">>}

\* Object keys a caller may send (opaque to the resolver).
Keys == {"k1", "k2"}

\* ------------------------------------------------------- JavaScript values
\* null / undefined results are the empty option; Some(v) is a present value.
Null == <<>>
Some(v) == <<v>>

\* String.prototype.split(','): the tokens between separators; ''.split(',')
\* is [''] (one empty token), never the empty array.
RECURSIVE splitFrom(_, _)
splitFrom(s, cur) ==
  IF s = <<>> THEN <<cur>>
  ELSE IF Head(s) = "," THEN <<cur>> \o splitFrom(Tail(s), <<>>)
  ELSE splitFrom(Tail(s), Append(cur, Head(s)))

split(s) == splitFrom(s, <<>>)

\* String.prototype.trim(): leading and trailing blanks removed.
RECURSIVE trimStart(_)
trimStart(s) == IF s # <<>> /\ Head(s) = " " THEN trimStart(Tail(s)) ELSE s

RECURSIVE trimEnd(_)
trimEnd(s) ==
  IF s # <<>> /\ s[Len(s)] = " " THEN trimEnd(SubSeq(s, 1, Len(s) - 1)) ELSE s

trim(s) == trimEnd(trimStart(s))

\* Array.prototype.includes
includes(arr, x) == \E i \in 1..Len(arr) : arr[i] = x

\* Map.prototype.set / get on a Map modelled as a function on its keys.
EmptyMap == [k \in {} |-> <<>>]
MapSet(m, k, v) == [x \in (DOMAIN m) \cup {k} |-> IF x = k THEN v ELSE m[x]]
MapGet(m, k) == IF k \in DOMAIN m THEN Some(m[k]) ELSE Null

\* ------------------------------------------------------------ validateEnv
nonEmpty(b) == Len(b) > 0

\* bucketNames: split and trimmed, empty tokens kept.
parseBucketNames(raw) ==
  LET toks == split(raw) IN [i \in 1..Len(toks) |-> trim(toks[i])]

\* friendlyNames: split, trimmed, empty tokens filtered out.
parseFriendlyNames(raw) ==
  LET toks == split(raw)
  IN  SelectSeq([i \in 1..Len(toks) |-> trim(toks[i])], nonEmpty)

\* Mutant: the count check rejects only a friendly list that is too short.
countMismatch_onlyTooFew(friendlyNames, bucketNames) ==
  Len(friendlyNames) > 0 /\ Len(friendlyNames) < Len(bucketNames)

\* The count check that throws 'FRIENDLY_BUCKET_NAMES count ... must match'.
countMismatch(friendlyNames, bucketNames) ==
  Len(friendlyNames) > 0 /\ Len(friendlyNames) # Len(bucketNames)

\* bucketNames.forEach((actual, index) => { set(friendly, actual); ... })
RECURSIVE pairMaps(_, _, _, _)
pairMaps(bucketNames, friendlyNames, i, maps) ==
  IF i > Len(bucketNames) THEN maps
  ELSE pairMaps(bucketNames, friendlyNames, i + 1,
         [bucketNameMap   |-> MapSet(maps.bucketNameMap, friendlyNames[i], bucketNames[i]),
          actualBucketMap |-> MapSet(maps.actualBucketMap, bucketNames[i], friendlyNames[i])])

\* The two mappings: friendly -> actual and actual -> friendly; identity
\* over bucketNames when no friendly names are configured.
createMappings(bucketNames, friendlyNames) ==
  IF Len(friendlyNames) > 0
  THEN pairMaps(bucketNames, friendlyNames, 1,
                [bucketNameMap |-> EmptyMap, actualBucketMap |-> EmptyMap])
  ELSE pairMaps(bucketNames, bucketNames, 1,
                [bucketNameMap |-> EmptyMap, actualBucketMap |-> EmptyMap])

\* parseInt(s, 10): leading blanks skipped, then the decimal digits read;
\* NaN (modelled as -1, no digit string parses to it) when there is none.
NaN == -1
Digits == {"0", "1", "2", "3", "4", "5", "6", "7", "8", "9"}
digitValue(c) ==
  CASE c = "0" -> 0 [] c = "1" -> 1 [] c = "2" -> 2 [] c = "3" -> 3 [] c = "4" -> 4
    [] c = "5" -> 5 [] c = "6" -> 6 [] c = "7" -> 7 [] c = "8" -> 8 [] c = "9" -> 9

RECURSIVE parseDigits(_, _, _)
parseDigits(s, acc, seen) ==
  IF s = <<>> \/ Head(s) \notin Digits
  THEN IF seen THEN acc ELSE NaN
  ELSE parseDigits(Tail(s), acc * 10 + digitValue(Head(s)), TRUE)

parseInt(s) == parseDigits(trimStart(s), 0, FALSE)

\* process.env.X || fallback: an unset or empty value takes the fallback.
orDefault(value, fallback) == IF value = <<>> THEN fallback ELSE value

DefaultRateLimitWindowMs == <<"1", "8", "0", "0", "0", "0", "0">>
DefaultRateLimitMaxRequests == <<"1", "0">>

NoConfig ==
  [bucketNames |-> <<>>, friendlyBucketNames |-> <<>>,
   bucketNameMap |-> EmptyMap, actualBucketMap |-> EmptyMap,
   rateLimitWindowMs |-> 0, rateLimitMaxRequests |-> 0, redisUrl |-> FALSE]

\* validateEnv(): the thrown error, or the Config object.
validateEnv(e) ==
  IF e.BUCKET_NAMES = <<>>
  THEN [threw |-> TRUE, error |-> "Missing required environment variables",
        config |-> NoConfig]
  ELSE
    LET bucketNames   == parseBucketNames(e.BUCKET_NAMES)
        friendlyNames == parseFriendlyNames(e.FRIENDLY_BUCKET_NAMES)
    IN  IF Len(bucketNames) = 0
        THEN [threw |-> TRUE, error |-> "BUCKET_NAMES must contain at least one bucket",
              config |-> NoConfig]
        ELSE IF countMismatch(friendlyNames, bucketNames)
        THEN [threw |-> TRUE, error |-> "FRIENDLY_BUCKET_NAMES count must match BUCKET_NAMES count",
              config |-> NoConfig]
        ELSE LET maps == createMappings(bucketNames, friendlyNames)
             IN  [threw |-> FALSE, error |-> "",
                  config |-> [bucketNames         |-> bucketNames,
                              friendlyBucketNames |-> friendlyNames,
                              bucketNameMap       |-> maps.bucketNameMap,
                              actualBucketMap     |-> maps.actualBucketMap,
                              rateLimitWindowMs   |->
                                parseInt(orDefault(e.RATE_LIMIT_WINDOW_MS,
                                                   DefaultRateLimitWindowMs)),
                              rateLimitMaxRequests |->
                                parseInt(orDefault(e.RATE_LIMIT_MAX_REQUESTS,
                                                   DefaultRateLimitMaxRequests)),
                              redisUrl            |-> e.REDIS_URL]]

\* ------------------------------------------------------------------ state
VARIABLES
  phase,    \* "boot" | "configured" | "serving" | "failed" (process exited)
  env,      \* process.env, as read by validateEnv
  config,   \* the exported config object (NoConfig until validateEnv returns)
  op,       \* the S3Service call most recently made, with the backend calls it issued
  now,      \* Date.now(), in ms since the process started
  store,    \* backing store of the limiters: "unset" | "local" | "shared"
  redis,    \* redisClient and its connection: "idle" (before startup) |
            \* "unconfigured" | "connected" | "refused" (connect() rejected) |
            \* "lost" (the connection dropped after startup)
  hits,     \* local mode: each limiter's own counter table
  shared,   \* shared mode: the counters kept in the shared store, by key
  counted,  \* observer: requests each limiter counted, per client and window
  lastCheck, \* the limiter check most recently made and its outcome
  inflight, \* requests inside a limiter's middleware, by request id
  sessions, \* auth.ts: the in-memory session store, token -> expiry
  issued,   \* observer: the instant each session token was created at
  lastValidate, \* observer: the validateToken call of the request last answered
  resp,     \* observer: the HTTP request most recently answered
  swept     \* observer: the session tokens a sweep of createSession deleted

svcVars == <<phase, env, config, op>>
rlVars == <<now, store, redis, hits, shared, counted, lastCheck>>
authVars == <<sessions, issued, lastValidate, resp, swept>>
extVars == <<inflight, sessions, issued, lastValidate, resp, swept>>
vars == <<phase, env, config, op, now, store, redis, hits, shared, counted, lastCheck,
          inflight, sessions, issued, lastValidate, resp, swept>>

NoOp ==
  [kind |-> "none", name |-> <<>>, value |-> Null, flag |-> FALSE,
   error |-> "", calls |-> <<>>, pc |-> "done"]

\* ------------------------------------------------------------- S3Service
\* Mutant: a name is also accepted when a configured bucket name is a
\* prefix of it (startsWith instead of equality).
isPrefix(p, t) == Len(p) <= Len(t) /\ SubSeq(t, 1, Len(p)) = p
resolveBucketName_prefix(bucketNameOrFriendly) ==
  IF \E i \in 1..Len(config.bucketNames) :
       isPrefix(config.bucketNames[i], bucketNameOrFriendly)
  THEN Some(bucketNameOrFriendly)
  ELSE Null

\* resolveBucketName: the actual name first, then the friendly-name map;
\* `if (actualName)` is false for undefined and for the empty string.
resolveBucketName(bucketNameOrFriendly) ==
  IF includes(config.bucketNames, bucketNameOrFriendly)
  THEN Some(bucketNameOrFriendly)
  ELSE LET actualName == MapGet(config.bucketNameMap, bucketNameOrFriendly)
       IN  IF actualName # Null /\ actualName[1] # <<>>
           THEN Some(actualName[1])
           ELSE Null

\* getFriendlyBucketName: actualBucketMap.get(name) || name
getFriendlyBucketName(actualBucketName) ==
  LET friendly == MapGet(config.actualBucketMap, actualBucketName)
  IN  IF friendly # Null /\ friendly[1] # <<>> THEN friendly[1] ELSE actualBucketName

\* validateBucket: resolveBucketName(name) !== null
validateBucket(bucketNameOrFriendly) ==
  resolveBucketName(bucketNameOrFriendly) # Null

\* Mutant: the name is passed through when it does not resolve (no throw).
getActualBucketName_noThrow(bucketNameOrFriendly) ==
  LET actual == resolveBucketName(bucketNameOrFriendly)
  IN  [threw |-> FALSE, error |-> "",
       value |-> IF actual = Null THEN bucketNameOrFriendly ELSE actual[1]]

\* getActualBucketName: throws 'Invalid bucket' when `!actual` (null or '').
getActualBucketName(bucketNameOrFriendly) ==
  LET actual == resolveBucketName(bucketNameOrFriendly)
  IN  IF actual = Null \/ actual[1] = <<>>
      THEN [threw |-> TRUE, error |-> "Invalid bucket", value |-> <<>>]
      ELSE [threw |-> FALSE, error |-> "", value |-> actual[1]]

\* One backend command with its Bucket argument.
Command(cmd, bucket, key) == [cmd |-> cmd, Bucket |-> bucket, Key |-> key]

\* new CopyObjectCommand({Bucket, CopySource: `/${bucket}/${sourceKey}`, Key}).
CopyCommand(bucket, sourceKey, targetKey) ==
  [cmd |-> "CopyObject", Bucket |-> bucket, Key |-> targetKey,
   CopySource |-> <<bucket, sourceKey>>]

\* Mutant: the command carries the caller's name, not the resolved one.
SendOne_rawName(kind, cmd, name, key) ==
  LET actualBucket == getActualBucketName(name)
  IN  IF actualBucket.threw
      THEN op' = [NoOp EXCEPT !.kind = kind, !.name = name, !.error = actualBucket.error]
      ELSE \E backendOk \in BOOLEAN :
             op' = [NoOp EXCEPT !.kind = kind, !.name = name,
                                !.value = Some(actualBucket.value),
                                !.calls = <<Command(cmd, name, key)>>,
                                !.error = IF backendOk THEN "" ELSE "BackendError"]

\* A gateway method that resolves the name and sends one command: the
\* 'Invalid bucket' throw with no command, or the command and its outcome.
SendOne(kind, cmd, name, key) ==
  LET actualBucket == getActualBucketName(name)
  IN  IF actualBucket.threw
      THEN op' = [NoOp EXCEPT !.kind = kind, !.name = name, !.error = actualBucket.error]
      ELSE \E backendOk \in BOOLEAN :
             op' = [NoOp EXCEPT !.kind = kind, !.name = name,
                                !.value = Some(actualBucket.value),
                                !.calls = <<Command(cmd, actualBucket.value, key)>>,
                                !.error = IF backendOk THEN "" ELSE "BackendError"]

\* ---------------------------------------------------------- rateLimiter
\* Largest offset (ms) inside a general-API window at which time is sampled.
MaxOffset == 1
\* Number of general-API windows after the first that time may reach.
MaxApiWindows == 1

Limiters == {"auth", "api"}
Clients == {"c1"}

\* The instants at which requests arrive.
Instants ==
  {w * (60 * 1000) + i : w \in 0..MaxApiWindows, i \in 0..MaxOffset}

\* A request path is its sequence of atoms: "/" or a non-empty run of
\* characters other than "/".
LoginRequest  == [method |-> "POST", path |-> <<"/", "api", "/", "auth", "/", "login">>]
UploadRequest == [method |-> "POST",
                  path |-> <<"/", "api", "/", "buckets", "/", "b", "/", "upload">>]
ListRequest   == [method |-> "GET",
                  path |-> <<"/", "api", "/", "buckets", "/", "b", "/", "files">>]

\* The routes each limiter is mounted on.
RequestsOf(limiter) ==
  IF limiter = "auth" THEN {LoginRequest}
  ELSE {UploadRequest, ListRequest}

\* skip: req.path.match(/^\/[^/]+\/.*/) && req.method === 'GET'
skip(req) ==
  /\ Len(req.path) >= 3
  /\ req.path[1] = "/" /\ req.path[2] # "/" /\ req.path[3] = "/"
  /\ req.method = "GET"

\* createLimiter(windowMs, max): the options handed to rateLimit(); the
\* RedisStore, when there is one, is built with prefix 'rl:'.
createLimiter(windowMs, max) ==
  [windowMs |-> windowMs, max |-> max, prefix |-> "rl:"]

\* Auth endpoint limiter and general API limiter.
authLimiter == createLimiter(config.rateLimitWindowMs, config.rateLimitMaxRequests)
ApiMax == 100
apiLimiter == createLimiter(60 * 1000, ApiMax)

limiterOf(limiter) == IF limiter = "auth" THEN authLimiter ELSE apiLimiter

\* The fixed window an instant falls in: floor(now / windowDuration).
windowIndex(t, windowMs) == t \div windowMs

NoHits == [window |-> 0, count |-> 0]
NoCounter == [count |-> 0, resetTime |-> 0]

\* Mutant: an increment made while another request of the limiter has
\* counted but not yet responded overwrites that request's increment (a
\* read-modify-write that is not atomic per key).
localIncrement_racy(limiter, client) ==
  LET windowMs == limiterOf(limiter).windowMs
      idx      == windowIndex(now, windowMs)
      cur      == hits[limiter][client]
      racing   == \E id \in DOMAIN inflight :
                    inflight[id].pc = "counted" /\ inflight[id].limiter = limiter
  IN  [totalHits |-> IF cur.window = idx
                     THEN IF racing THEN cur.count ELSE cur.count + 1
                     ELSE 1,
       window    |-> idx,
       resetTime |-> (idx + 1) * windowMs]

\* Local store: the limiter's own table, one counter per client for the
\* current fixed window.
localIncrement(limiter, client) ==
  LET windowMs == limiterOf(limiter).windowMs
      idx      == windowIndex(now, windowMs)
      cur      == hits[limiter][client]
  IN  [totalHits |-> IF cur.window = idx THEN cur.count + 1 ELSE 1,
       window    |-> idx,
       resetTime |-> (idx + 1) * windowMs]

\* Shared store: the key is the store's prefix followed by the client key.
sharedKey(limiter, client) == <<limiterOf(limiter).prefix, client>>

\* Shared store: the counter under the key is incremented; a counter that is
\* new or has expired starts at 1 and expires one window of the incrementing
\* limiter later.
sharedIncrement(limiter, client) ==
  LET cur == shared[sharedKey(limiter, client)]
  IN  IF cur.count = 0 \/ now >= cur.resetTime
      THEN [totalHits |-> 1, resetTime |-> now + limiterOf(limiter).windowMs]
      ELSE [totalHits |-> cur.count + 1, resetTime |-> cur.resetTime]

\* Observer: the limiter's own window for the client. A window of a local
\* store is the fixed window now falls in; a window of the shared store
\* starts with the limiter's first counted request and lasts windowMs.
inWindow(limiter, client) ==
  counted[limiter][client].count > 0 /\ now < counted[limiter][client].resetTime

windowEnd(limiter, client) ==
  LET windowMs == limiterOf(limiter).windowMs
  IN  IF inWindow(limiter, client) THEN counted[limiter][client].resetTime
      ELSE IF store = "shared" THEN now + windowMs
      ELSE (windowIndex(now, windowMs) + 1) * windowMs

\* Observer: how many requests of the client this limiter has counted in
\* that window, this one included.
nthCounted(limiter, client) ==
  IF inWindow(limiter, client) THEN counted[limiter][client].count + 1 ELSE 1

NoCheck ==
  [limiter |-> "none", client |-> "none", route |-> "none", skipped |-> FALSE,
   failed |-> FALSE, nth |-> 0, totalHits |-> 0, outcome |-> "none",
   resetTime |-> 0]

\* What a request sees when the store's command cannot be carried out: the
\* rejection reaches next(error) and the error handler answers 500, or the
\* command waits in the client's queue and the request gets no response.
\* The options set no handling of store errors, so no outcome lets the
\* request through.
StoreErrorOutcomes == {"500 Internal server error", "no response"}

\* A request the limiter counts: the client's counter is incremented and the
\* request is answered 429 when the count exceeds max. An increment that
\* fails against the shared store ends the request with the error.
countAndDecide(limiter, client, req) ==
  IF store = "shared" /\ redis = "lost"
  THEN /\ \E outcome \in StoreErrorOutcomes :
            lastCheck' = [NoCheck EXCEPT !.limiter = limiter, !.client = client,
                                          !.route = req.method,
                                          !.failed = TRUE,
                                          !.outcome = outcome]
       /\ UNCHANGED <<hits, shared, counted>>
  ELSE /\ nthCounted(limiter, client) <= limiterOf(limiter).max + 1
       /\ LET r == IF store = "shared" THEN sharedIncrement(limiter, client)
                   ELSE localIncrement(limiter, client)
          IN  /\ IF store = "shared"
                 THEN /\ shared' = [shared EXCEPT ![sharedKey(limiter, client)] =
                                      [count |-> r.totalHits, resetTime |-> r.resetTime]]
                      /\ UNCHANGED hits
                 ELSE /\ hits' = [hits EXCEPT ![limiter][client] =
                                      [window |-> r.window, count |-> r.totalHits]]
                      /\ UNCHANGED shared
              /\ counted' = [counted EXCEPT ![limiter][client] =
                               [count |-> nthCounted(limiter, client),
                                resetTime |-> windowEnd(limiter, client)]]
              /\ lastCheck' =
                   [limiter |-> limiter, client |-> client, route |-> req.method,
                    skipped |-> FALSE, failed |-> FALSE,
                    nth |-> nthCounted(limiter, client),
                    totalHits |-> r.totalHits,
                    outcome |-> IF r.totalHits > limiterOf(limiter).max
                                THEN "429 Too many requests" ELSE "next",
                    resetTime |-> r.resetTime]

\* A request the limiter does not count: skip(req) held, next() is called.
passUncounted(limiter, client, req) ==
  /\ lastCheck' = [NoCheck EXCEPT !.limiter = limiter, !.client = client,
                                   !.route = req.method, !.skipped = TRUE,
                                   !.outcome = "next"]
  /\ UNCHANGED <<hits, shared, counted>>

\* The middleware rateLimit(options) returns: skipped requests pass
\* uncounted, the others are counted.
rateLimit(limiter, client, req) ==
  IF skip(req)
  THEN passUncounted(limiter, client, req)
  ELSE countAndDecide(limiter, client, req)

\* The middleware run for one request that reaches it.
RateLimitMiddleware(limiter, client, req) ==
  /\ phase = "serving"
  /\ rateLimit(limiter, client, req)
  /\ UNCHANGED <<now, store, redis>>
  /\ UNCHANGED svcVars
  /\ UNCHANGED extVars

\* Time passes to a later instant.
AdvanceTime(t) ==
  /\ phase = "serving"
  /\ t > now
  /\ now' = t
  /\ UNCHANGED <<store, redis, hits, shared, counted, lastCheck>>
  /\ UNCHANGED svcVars
  /\ UNCHANGED extVars

\* Requests that may be inside a limiter's middleware at the same time.
MaxInflight == 3
RequestIds == 1..MaxInflight

NoRequest ==
  [pc |-> "none", limiter |-> "none", client |-> "none", totalHits |-> 0,
   resetTime |-> 0, outcome |-> "none"]

\* ------------------------------------------------------------------ auth
\* Session tokens generateSessionToken can return (32 random bytes each; a
\* token is not drawn twice).
Tokens == {"t1", "t2"}
\* A token no session was ever created with.
UnknownToken == "tx"

SESSION_TTL == 60 * 60 * 1000

\* Map.prototype.delete
MapDelete(m, k) == [x \in (DOMAIN m) \ {k} |-> m[x]]

\* Mutant: the sweep deletes every session created before this one.
createSession_eagerSweep(token, sweep) ==
  LET stored == MapSet(sessions, token, [expiry |-> now + SESSION_TTL])
  IN  IF sweep
      THEN [k \in {x \in DOMAIN stored : ~(stored[x].expiry < now + SESSION_TTL)}
              |-> stored[k]]
      ELSE stored

\* createSession(): the session is stored with expiry now + SESSION_TTL; with
\* probability 0.1 (sweep) the entries whose expiry is before now are deleted.
createSession(token, sweep) ==
  LET stored == MapSet(sessions, token, [expiry |-> now + SESSION_TTL])
  IN  IF sweep
      THEN [k \in {x \in DOMAIN stored : ~(stored[x].expiry < now)} |-> stored[k]]
      ELSE stored

\* Mutant: a successful validation renews the session (sliding expiry).
validateToken_sliding(token) ==
  LET session == MapGet(sessions, token)
  IN  IF session = Null THEN [result |-> FALSE, sessions |-> sessions]
      ELSE IF session[1].expiry < now
      THEN [result |-> FALSE, sessions |-> MapDelete(sessions, token)]
      ELSE [result |-> TRUE,
            sessions |-> MapSet(sessions, token, [expiry |-> now + SESSION_TTL])]

\* validateToken(token): false for an unknown token; a session whose expiry
\* is before now is deleted and false; true otherwise.
validateToken(token) ==
  LET session == MapGet(sessions, token)
  IN  IF session = Null THEN [result |-> FALSE, sessions |-> sessions]
      ELSE IF session[1].expiry < now
      THEN [result |-> FALSE, sessions |-> MapDelete(sessions, token)]
      ELSE [result |-> TRUE, sessions |-> sessions]

NoValidate == [token |-> "none", result |-> FALSE, at |-> 0]
NoResponse ==
  [route |-> "none", cookie |-> Null, bearer |-> Null, token |-> Null,
   password |-> "missing", at |-> 0, authenticated |-> FALSE,
   countedBy |-> "none", status |-> 0, error |-> "", cacheControl |-> "",
   calls |-> <<>>]

InitAuth ==
  /\ sessions = EmptyMap
  /\ issued = EmptyMap
  /\ lastValidate = NoValidate
  /\ resp = NoResponse
  /\ swept = {}

\* ---------------------------------------------------------------- startup
InitLimiters ==
  /\ now = 0
  /\ store = "unset"
  /\ redis = "idle"
  /\ hits = [l \in Limiters |-> [c \in Clients |-> NoHits]]
  /\ shared = [k \in {<<"rl:", c>> : c \in Clients} |-> NoCounter]
  /\ counted = [l \in Limiters |-> [c \in Clients |-> NoCounter]]
  /\ lastCheck = NoCheck
  /\ inflight = [id \in RequestIds |-> NoRequest]
  /\ InitAuth

Init ==
  /\ phase = "boot"
  /\ env \in [BUCKET_NAMES : EnvStrings, FRIENDLY_BUCKET_NAMES : EnvStrings,
              RATE_LIMIT_WINDOW_MS : {<<>>}, RATE_LIMIT_MAX_REQUESTS : {<<>>},
              REDIS_URL : {FALSE}]
  /\ config = NoConfig
  /\ op = NoOp
  /\ InitLimiters

\* export const config = validateEnv(): a throw at import ends the process.
ValidateEnv ==
  /\ phase = "boot"
  /\ LET r == validateEnv(env)
     IN  IF r.threw
         THEN /\ phase' = "failed"
              /\ config' = NoConfig
         ELSE /\ phase' = "configured"
              /\ config' = r.config
  /\ UNCHANGED <<env, op>>
  /\ UNCHANGED rlVars
  /\ UNCHANGED extVars

\* Mutant: a configured endpoint yields a client whether or not connect()
\* resolved (the rejection is not caught into the null fallback).
initRedis_noFallback(connected) == config.redisUrl

\* initRedis(): no client without REDIS_URL; otherwise the client when
\* connect() resolves and null when it rejects.
initRedis(connected) == config.redisUrl /\ connected

\* What initRedis leaves behind: redisClient is assigned only when connect()
\* resolved; a rejection is caught and logged as a warning.
redisAfterInit(connected) ==
  IF ~config.redisUrl THEN "unconfigured"
  ELSE IF connected THEN "connected" ELSE "refused"

\* startServer(): setupRateLimiters() picks the limiters' store (the Redis
\* store when initRedis returned a client), the routes are set up and the
\* server listens.
StartServer ==
  /\ phase = "configured"
  /\ \E connected \in BOOLEAN :
       /\ store' = IF initRedis(connected) THEN "shared" ELSE "local"
       /\ redis' = redisAfterInit(connected)
  /\ phase' = "serving"
  /\ UNCHANGED <<env, config, op, now, hits, shared, counted, lastCheck>>
  /\ UNCHANGED extVars

\* --------------------------------------------------------------- requests
\* The server is listening and no S3Service call is being recorded.
Idle == phase = "serving" /\ op = NoOp

\* The call has settled and its caller has answered the request.
Return ==
  /\ phase = "serving"
  /\ op # NoOp /\ op.pc = "done"
  /\ op' = NoOp
  /\ UNCHANGED <<phase, env, config>>
  /\ UNCHANGED rlVars
  /\ UNCHANGED extVars

\* Mutant: a name that resolves is cached in bucketNameMap.
ResolveBucketName_caching(name) ==
  /\ Idle
  /\ op' = [NoOp EXCEPT !.kind = "resolveBucketName", !.name = name,
                        !.value = resolveBucketName(name)]
  /\ config' = IF resolveBucketName(name) = Null THEN config
               ELSE [config EXCEPT !.bucketNameMap =
                       MapSet(@, name, resolveBucketName(name)[1])]
  /\ UNCHANGED <<phase, env>>
  /\ UNCHANGED rlVars
  /\ UNCHANGED extVars

ResolveBucketName(name) ==
  /\ Idle
  /\ op' = [NoOp EXCEPT !.kind = "resolveBucketName", !.name = name,
                        !.value = resolveBucketName(name)]
  /\ UNCHANGED <<phase, env, config>>
  /\ UNCHANGED rlVars
  /\ UNCHANGED extVars

GetFriendlyBucketName(name) ==
  /\ Idle
  /\ op' = [NoOp EXCEPT !.kind = "getFriendlyBucketName", !.name = name,
                        !.value = Some(getFriendlyBucketName(name))]
  /\ UNCHANGED <<phase, env, config>>
  /\ UNCHANGED rlVars
  /\ UNCHANGED extVars

ValidateBucket(name) ==
  /\ Idle
  /\ op' = [NoOp EXCEPT !.kind = "validateBucket", !.name = name,
                        !.flag = validateBucket(name)]
  /\ UNCHANGED <<phase, env, config>>
  /\ UNCHANGED rlVars
  /\ UNCHANGED extVars

GetActualBucketName(name) ==
  /\ Idle
  /\ LET r == getActualBucketName(name)
     IN  op' = [NoOp EXCEPT !.kind = "getActualBucketName", !.name = name,
                            !.value = IF r.threw THEN Null ELSE Some(r.value),
                            !.error = r.error]
  /\ UNCHANGED <<phase, env, config>>
  /\ UNCHANGED rlVars
  /\ UNCHANGED extVars

GetObject(name, key) ==
  /\ Idle
  /\ SendOne("getObject", "GetObject", name, key)
  /\ UNCHANGED <<phase, env, config>>
  /\ UNCHANGED rlVars
  /\ UNCHANGED extVars

ListObjects(name, prefix) ==
  /\ Idle
  /\ SendOne("listObjects", "ListObjectsV2", name, prefix)
  /\ UNCHANGED <<phase, env, config>>
  /\ UNCHANGED rlVars
  /\ UNCHANGED extVars

UploadFile(name, key) ==
  /\ Idle
  /\ SendOne("uploadFile", "PutObject", name, key)
  /\ UNCHANGED <<phase, env, config>>
  /\ UNCHANGED rlVars
  /\ UNCHANGED extVars

DeleteFile(name, key) ==
  /\ Idle
  /\ SendOne("deleteFile", "DeleteObject", name, key)
  /\ UNCHANGED <<phase, env, config>>
  /\ UNCHANGED rlVars
  /\ UNCHANGED extVars

CopyFile(name, sourceKey, targetKey) ==
  /\ Idle
  /\ LET actualBucket == getActualBucketName(name)
     IN  IF actualBucket.threw
         THEN op' = [NoOp EXCEPT !.kind = "copyFile", !.name = name,
                                 !.error = actualBucket.error]
         ELSE \E backendOk \in BOOLEAN :
                op' = [NoOp EXCEPT !.kind = "copyFile", !.name = name,
                         !.value = Some(actualBucket.value),
                         !.calls = <<CopyCommand(actualBucket.value, sourceKey, targetKey)>>,
                         !.error = IF backendOk THEN "" ELSE "BackendError"]
  /\ UNCHANGED <<phase, env, config>>
  /\ UNCHANGED rlVars
  /\ UNCHANGED extVars

\* moveFile, first await: the copy. A failed copy rejects the call.
MoveFileCopy(name, sourceKey, targetKey) ==
  /\ Idle
  /\ LET actualBucket == getActualBucketName(name)
     IN  IF actualBucket.threw
         THEN op' = [NoOp EXCEPT !.kind = "moveFile", !.name = name,
                                 !.error = actualBucket.error]
         ELSE \E backendOk \in BOOLEAN :
                op' = [NoOp EXCEPT !.kind = "moveFile", !.name = name,
                         !.value = Some(actualBucket.value),
                         !.calls = <<CopyCommand(actualBucket.value, sourceKey, targetKey)>>,
                         !.flag = (sourceKey = targetKey),
                         !.error = IF backendOk THEN "" ELSE "BackendError",
                         !.pc = IF backendOk THEN "copied" ELSE "done"]
  /\ UNCHANGED <<phase, env, config>>
  /\ UNCHANGED rlVars
  /\ UNCHANGED extVars

\* moveFile, second await: the delete of the source, in the same bucket.
MoveFileDelete ==
  /\ phase = "serving"
  /\ op.kind = "moveFile" /\ op.pc = "copied"
  /\ \E backendOk \in BOOLEAN :
       op' = [op EXCEPT !.calls = Append(@, Command("DeleteObject", op.value[1],
                                                    op.calls[1].CopySource[2])),
                        !.error = IF backendOk THEN "" ELSE "BackendError",
                        !.pc = "done"]
  /\ UNCHANGED <<phase, env, config>>
  /\ UNCHANGED rlVars
  /\ UNCHANGED extVars

Next ==
  \/ ValidateEnv
  \/ StartServer
  \/ \E name \in QueryNames :
       \/ ResolveBucketName(name)
       \/ GetFriendlyBucketName(name)
       \/ ValidateBucket(name)
       \/ GetActualBucketName(name)
       \/ \E key \in Keys :
            \/ GetObject(name, key)
            \/ ListObjects(name, key)
            \/ UploadFile(name, key)
            \/ DeleteFile(name, key)
       \/ \E sourceKey \in Keys, targetKey \in Keys :
            \/ CopyFile(name, sourceKey, targetKey)
            \/ MoveFileCopy(name, sourceKey, targetKey)
  \/ MoveFileDelete
  \/ Return

Spec == Init /\ [][Next]_vars

\* ================================================================= claims
\* Vocabulary of the claims, read off the environment and the config object.
Range(seq) == {seq[i] : i \in 1..Len(seq)}
HasDuplicate(seq) == \E i, j \in 1..Len(seq) : i # j /\ seq[i] = seq[j]

\* The real identifiers and aliases as written in the environment.
EnvBuckets == parseBucketNames(env.BUCKET_NAMES)
EnvAliases == parseFriendlyNames(env.FRIENDLY_BUCKET_NAMES)

\* The alias configured for position i (the real name when aliasing is off).
AliasAt(i) ==
  IF Len(config.friendlyBucketNames) > 0
  THEN config.friendlyBucketNames[i] ELSE config.bucketNames[i]

\* A name that is a configured real identifier or a configured alias.
Configured(name) ==
  includes(config.bucketNames, name) \/ includes(config.friendlyBucketNames, name)

\* Empty or blank-only names.
IsBlank(name) == trim(name) = <<>>

GatewayKinds ==
  {"getObject", "listObjects", "uploadFile", "deleteFile", "moveFile", "copyFile"}

\* C1 (as claimed): once serving, for every configured (real, alias) pair,
\* resolveBucketName(alias) and resolveBucketName(real) are the real
\* identifier and getFriendlyBucketName(real) is the alias.
C1_PairsResolve ==
  phase = "serving" =>
    \A i \in 1..Len(config.bucketNames) :
      /\ resolveBucketName(AliasAt(i)) = Some(config.bucketNames[i])
      /\ resolveBucketName(config.bucketNames[i]) = Some(config.bucketNames[i])
      /\ getFriendlyBucketName(config.bucketNames[i]) = AliasAt(i)

\* C2: a name that is neither a configured real identifier nor a configured
\* alias resolves to null and is not valid; with no aliases configured
\* exactly the real identifiers are valid.
C2_UnconfiguredNotFound ==
  phase = "serving" =>
    /\ \A name \in QueryNames :
         ~Configured(name) => resolveBucketName(name) = Null /\ ~validateBucket(name)
    /\ (op.kind = "resolveBucketName" /\ ~Configured(op.name)) => op.value = Null
    /\ (op.kind = "validateBucket" /\ ~Configured(op.name)) => ~op.flag
    /\ Len(config.friendlyBucketNames) = 0 =>
         \A name \in QueryNames :
           validateBucket(name) <=> includes(config.bucketNames, name)

\* C2 witness: resolveBucketName was asked for "ab" while "a" is a bucket and
\* "ab" is not configured, and answered null.
C2_Witness ==
  /\ op.kind = "resolveBucketName" /\ op.name = <<"a", "b">>
  /\ includes(config.bucketNames, <<"a">>)
  /\ ~Configured(op.name)
  /\ op.value = Null

\* C3 (as claimed): validateBucket(name) is true exactly when
\* getActualBucketName(name) returns instead of throwing 'Invalid bucket'.
C3_ValidIffResolves ==
  phase = "serving" =>
    \A name \in QueryNames :
      validateBucket(name) <=> ~getActualBucketName(name).threw

\* C4 (as claimed): the empty name and blank-only names are never found.
C4_BlankNotFound ==
  phase = "serving" =>
    \A name \in QueryNames :
      IsBlank(name) => resolveBucketName(name) = Null /\ ~validateBucket(name)

\* C5: the Bucket argument of every backend command is a member of the
\* configured whitelist of real identifiers.
C5_BucketInWhitelist ==
  \A i \in 1..Len(op.calls) : includes(config.bucketNames, op.calls[i].Bucket)

\* C5 witness: getObject was called with an alias that is no real name and
\* sent a command.
C5_Witness ==
  /\ op.kind = "getObject"
  /\ ~includes(config.bucketNames, op.name)
  /\ Len(op.calls) = 1
  /\ op.calls[1].Bucket # op.name

\* C6: a gateway operation whose bucket name does not resolve fails with
\* 'Invalid bucket' and sends no backend command.
C6_InvalidBucketNoCall ==
  (op.kind \in GatewayKinds /\ resolveBucketName(op.name) = Null) =>
    op.error = "Invalid bucket" /\ op.calls = <<>>

\* C6 witness: moveFile was called with a name that does not resolve.
C6_Witness ==
  /\ op.kind = "moveFile"
  /\ resolveBucketName(op.name) = Null
  /\ op.error = "Invalid bucket"

\* C7: a non-empty alias list whose count differs from the bucket list's
\* count ends startup in failure; no request is served.
AliasCountMismatch ==
  Len(EnvAliases) > 0 /\ Len(EnvAliases) # Len(EnvBuckets)

C7_CountMismatchFatal ==
  AliasCountMismatch =>
    /\ phase \in {"boot", "failed"}
    /\ config = NoConfig
    /\ op = NoOp

\* C7 witness: startup failed on two buckets with a single alias.
C7_Witness ==
  /\ phase = "failed"
  /\ Len(EnvBuckets) = 2 /\ Len(EnvAliases) = 1
  /\ validateEnv(env).error = "FRIENDLY_BUCKET_NAMES count must match BUCKET_NAMES count"

\* C8 (as claimed): a duplicate real identifier or a duplicate alias is
\* rejected at startup.
C8_DuplicatesFatal ==
  (HasDuplicate(EnvBuckets) \/ HasDuplicate(EnvAliases)) =>
    phase \in {"boot", "failed"}

\* C9 (as claimed): while serving, bucketNameMap is a bijection from the
\* configured aliases onto the configured real identifiers and
\* actualBucketMap is its inverse.
C9_MapsBijective ==
  phase = "serving" =>
    LET aliases == {AliasAt(i) : i \in 1..Len(config.bucketNames)}
        reals   == Range(config.bucketNames)
    IN  /\ DOMAIN config.bucketNameMap = aliases
        /\ {config.bucketNameMap[a] : a \in aliases} = reals
        /\ \A a1, a2 \in aliases :
             config.bucketNameMap[a1] = config.bucketNameMap[a2] => a1 = a2
        /\ DOMAIN config.actualBucketMap = reals
        /\ \A a \in aliases : config.actualBucketMap[config.bucketNameMap[a]] = a
        /\ \A r \in reals : config.bucketNameMap[config.actualBucketMap[r]] = r

\* ------------------------------------------------ rate limiter behaviours
RateWindowValues == {<<"2">>}
RateMaxValues == {<<"1">>, <<"2">>}

InitRL ==
  /\ phase = "boot"
  /\ env \in [BUCKET_NAMES : {<<"a">>}, FRIENDLY_BUCKET_NAMES : {<<>>},
              RATE_LIMIT_WINDOW_MS : RateWindowValues,
              RATE_LIMIT_MAX_REQUESTS : RateMaxValues,
              REDIS_URL : BOOLEAN]
  /\ config = NoConfig
  /\ op = NoOp
  /\ InitLimiters

NextRL ==
  \/ ValidateEnv
  \/ StartServer
  \/ \E t \in Instants : AdvanceTime(t)
  \/ \E limiter \in Limiters, client \in Clients :
       \E req \in RequestsOf(limiter) : RateLimitMiddleware(limiter, client, req)

SpecRL == InitRL /\ [][NextRL]_vars

\* The quota each limiter is configured with.
QuotaOf(limiter) ==
  IF limiter = "auth"
  THEN parseInt(orDefault(env.RATE_LIMIT_MAX_REQUESTS, DefaultRateLimitMaxRequests))
  ELSE 100

\* C10 (as claimed): of the requests of one client that a limiter counts
\* inside one of its windows, the first Q are let through and the (Q+1)-th
\* is answered 429; the first request after the window has elapsed is the
\* first of a new window and is let through again.
C10_QuotaPerWindow ==
  (lastCheck.limiter \in Limiters /\ ~lastCheck.skipped) =>
    /\ lastCheck.nth <= QuotaOf(lastCheck.limiter) => lastCheck.outcome = "next"
    /\ lastCheck.nth = QuotaOf(lastCheck.limiter) + 1 =>
         lastCheck.outcome = "429 Too many requests"

\* The current count a limiter reads for a client from its backing store.
counterSeenBy(limiter, client) ==
  IF store = "shared"
  THEN LET cur == shared[sharedKey(limiter, client)]
       IN  IF now >= cur.resetTime THEN 0 ELSE cur.count
  ELSE LET cur == hits[limiter][client]
       IN  IF cur.window = windowIndex(now, limiterOf(limiter).windowMs)
           THEN cur.count ELSE 0

OtherLimiter(limiter) == IF limiter = "auth" THEN "api" ELSE "auth"

\* C14 (as claimed): in local and in shared-store mode alike, a request
\* counted by one limiter leaves unchanged the count the other limiter
\* reads for the same client.
C14_LimitersIndependent ==
  [][\A limiter \in Limiters, client \in Clients :
       counted'[limiter][client] # counted[limiter][client] =>
         counterSeenBy(OtherLimiter(limiter), client)' =
           counterSeenBy(OtherLimiter(limiter), client)]_vars

\* ------------------------------------------------------- startup, fairly
\* Startup under every environment, followed by login requests; startServer()
\* is called when the module is loaded and its awaits settle, so the step
\* from "configured" to "serving" is taken.
InitStart ==
  /\ phase = "boot"
  /\ env \in [BUCKET_NAMES : EnvStrings, FRIENDLY_BUCKET_NAMES : EnvStrings,
              RATE_LIMIT_WINDOW_MS : {<<>>}, RATE_LIMIT_MAX_REQUESTS : {<<>>},
              REDIS_URL : BOOLEAN]
  /\ config = NoConfig
  /\ op = NoOp
  /\ InitLimiters

NextStart ==
  \/ ValidateEnv
  \/ StartServer
  \/ \E client \in Clients : RateLimitMiddleware("auth", client, LoginRequest)

SpecStart == InitStart /\ [][NextStart]_vars /\ WF_vars(StartServer)

MaxStoreHits == 2

\* Mutant: on losing the connection the limiters fail over to local mode.
ConnectionLost_failover ==
  /\ phase = "serving"
  /\ redis = "connected"
  /\ redis' = "lost"
  /\ store' = "local"
  /\ UNCHANGED <<now, hits, shared, counted, lastCheck>>
  /\ UNCHANGED svcVars
  /\ UNCHANGED extVars

\* The connection to the shared store drops after startup. The limiters keep
\* the store they were built with.
ConnectionLost ==
  /\ phase = "serving"
  /\ redis = "connected"
  /\ redis' = "lost"
  /\ UNCHANGED <<now, store, hits, shared, counted, lastCheck>>
  /\ UNCHANGED svcVars
  /\ UNCHANGED extVars

\* The client reconnects: the store is reachable again.
ConnectionRestored ==
  /\ phase = "serving"
  /\ redis = "lost"
  /\ redis' = "connected"
  /\ UNCHANGED <<now, store, hits, shared, counted, lastCheck>>
  /\ UNCHANGED svcVars
  /\ UNCHANGED extVars

NextStore ==
  \/ ValidateEnv
  \/ StartServer
  \/ ConnectionLost
  \/ ConnectionRestored
  \/ \E t \in Instants : AdvanceTime(t)
  \/ \E limiter \in Limiters, client \in Clients :
       \E req \in RequestsOf(limiter) :
         /\ counted[limiter][client].count < MaxStoreHits
         /\ RateLimitMiddleware(limiter, client, req)

SpecStore == InitRL /\ [][NextStore]_vars

\* C13 (as claimed): in shared-store mode a check whose counter operation
\* fails lets the request through to its handler; the client gets neither
\* too-many-requests nor a server error from the limiter.
C13_StoreFailureFailsOpen ==
  (lastCheck.limiter \in Limiters /\ store = "shared" /\ lastCheck.failed) =>
    lastCheck.outcome = "next"

\* C16: once the limiters are in shared or local mode, no later step (a
\* request, the loss of the connection, its recovery, time passing) changes
\* the mode.
C16_StoreNeverChanges ==
  [][store # "unset" => store' = store]_vars

\* C16 witness: shared mode, the connection is lost and a request has been
\* checked against the unreachable store.
C16_Witness ==
  /\ store = "shared" /\ redis = "lost"
  /\ lastCheck.limiter = "api" /\ lastCheck.outcome \in StoreErrorOutcomes

\* ------------------------------------------------- requests in flight
\* The middleware awaits three times: the skip predicate and the key, then
\* store.increment(key), then it responds. Requests interleave at each await.
\* Request ids are handed out in order of arrival.
BeginCheck(id, limiter, client, req) ==
  /\ phase = "serving"
  /\ inflight[id].pc = "none"
  /\ \A earlier \in 1..(id - 1) : inflight[earlier].pc # "none"
  /\ inflight' = [inflight EXCEPT ![id] =
       IF skip(req)
       THEN [NoRequest EXCEPT !.pc = "done", !.limiter = limiter,
                              !.client = client, !.outcome = "next"]
       ELSE [NoRequest EXCEPT !.pc = "keyed", !.limiter = limiter,
                              !.client = client]]
  /\ UNCHANGED <<rlVars, svcVars>>
  /\ UNCHANGED authVars

\* store.increment(key): one synchronous turn of the in-memory store, one
\* atomic increment of the shared store.
CountRequest(id) ==
  /\ phase = "serving"
  /\ inflight[id].pc = "keyed"
  /\ LET limiter == inflight[id].limiter
         client  == inflight[id].client
         r == IF store = "shared" THEN sharedIncrement(limiter, client)
              ELSE localIncrement(limiter, client)
     IN  /\ IF store = "shared"
            THEN /\ shared' = [shared EXCEPT ![sharedKey(limiter, client)] =
                                 [count |-> r.totalHits, resetTime |-> r.resetTime]]
                 /\ UNCHANGED hits
            ELSE /\ hits' = [hits EXCEPT ![limiter][client] =
                                 [window |-> r.window, count |-> r.totalHits]]
                 /\ UNCHANGED shared
         /\ inflight' = [inflight EXCEPT ![id].pc = "counted",
                                         ![id].totalHits = r.totalHits,
                                         ![id].resetTime = r.resetTime]
  /\ UNCHANGED <<now, store, redis, counted, lastCheck>>
  /\ UNCHANGED svcVars
  /\ UNCHANGED authVars

\* The response: 429 when the count the increment returned exceeds max.
Respond(id) ==
  /\ phase = "serving"
  /\ inflight[id].pc = "counted"
  /\ inflight' = [inflight EXCEPT ![id].pc = "done",
                    ![id].outcome =
                      IF inflight[id].totalHits > limiterOf(inflight[id].limiter).max
                      THEN "429 Too many requests" ELSE "next"]
  /\ UNCHANGED <<rlVars, svcVars>>
  /\ UNCHANGED authVars

\* Time stays inside the first general-API window; the auth window, which
\* the environment here sets to 2 ms, can elapse within it.
NextConc ==
  \/ ValidateEnv
  \/ StartServer
  \/ \E t \in Instants : t < 60 * 1000 /\ AdvanceTime(t)
  \/ \E id \in RequestIds, limiter \in Limiters, client \in Clients :
       \E req \in RequestsOf(limiter) : BeginCheck(id, limiter, client, req)
  \/ \E id \in RequestIds : CountRequest(id)
  \/ \E id \in RequestIds : Respond(id)

SpecConc == InitRL /\ [][NextConc]_vars

\* The requests a limiter has let through for a client among those counted
\* in the window that ends at resetTime.
AllowedIn(limiter, client, resetTime) ==
  {id \in RequestIds :
     /\ inflight[id].pc = "done" /\ inflight[id].outcome = "next"
     /\ inflight[id].limiter = limiter /\ inflight[id].client = client
     /\ inflight[id].totalHits > 0
     /\ inflight[id].resetTime = resetTime}

Routes ==
  {"login", "listBuckets", "listFiles", "upload", "delete", "move", "copy", "proxy"}

DeleteRequest ==
  [method |-> "DELETE",
   path |-> <<"/", "api", "/", "buckets", "/", "b", "/", "files", "/", "k1">>]
MoveRequest ==
  [method |-> "POST", path |-> <<"/", "api", "/", "buckets", "/", "b", "/", "move">>]
CopyRequest ==
  [method |-> "POST", path |-> <<"/", "api", "/", "buckets", "/", "b", "/", "copy">>]
ListBucketsRequest == [method |-> "GET", path |-> <<"/", "api", "/", "buckets">>]
ProxyRequest == [method |-> "GET", path |-> <<"/", "b", "/", "k1">>]

requestOf(route) ==
  CASE route = "login"       -> LoginRequest
    [] route = "listBuckets" -> ListBucketsRequest
    [] route = "listFiles"   -> ListRequest
    [] route = "upload"      -> UploadRequest
    [] route = "delete"      -> DeleteRequest
    [] route = "move"        -> MoveRequest
    [] route = "copy"        -> CopyRequest
    [] route = "proxy"       -> ProxyRequest

\* The auth middleware mounted on the route, ahead of any limiter.
authOf(route) ==
  IF route \in {"upload", "delete", "move", "copy"} THEN "required"
  ELSE IF route \in {"listBuckets", "listFiles"} THEN "optional"
  ELSE "none"

\* Mutant: the login route is mounted without the auth limiter.
limiterOn_loginOpen(route) ==
  IF route \in {"listFiles", "upload", "delete", "move", "copy"} THEN "api"
  ELSE "none"

\* The limiter mounted on the route.
limiterOn(route) ==
  IF route = "login" THEN "auth"
  ELSE IF route \in {"listFiles", "upload", "delete", "move", "copy"} THEN "api"
  ELSE "none"

\* Mutant: the proxy route goes through the auth limiter and is counted.
countingLimiter_proxyCounted(route) ==
  IF route = "proxy" THEN "auth"
  ELSE IF limiterOn(route) = "none" \/ skip(requestOf(route)) THEN "none"
  ELSE limiterOn(route)

\* The limiter that counts a request to the route: the one mounted on it,
\* unless its skip predicate holds of the request.
countingLimiter(route) ==
  IF limiterOn(route) = "none" \/ skip(requestOf(route)) THEN "none"
  ELSE limiterOn(route)

\* The storage commands a management handler sends for a valid bucket; a
\* move sends the delete only after the copy succeeded.
commandsOf(route, bucket, copyOk) ==
  CASE route = "listFiles" -> <<Command("ListObjectsV2", bucket, "k1")>>
    [] route = "upload"    -> <<Command("PutObject", bucket, "k1")>>
    [] route = "delete"    -> <<Command("DeleteObject", bucket, "k1")>>
    [] route = "copy"      -> <<CopyCommand(bucket, "k1", "k2")>>
    [] route = "move"      ->
         IF copyOk
         THEN <<CopyCommand(bucket, "k1", "k2"), Command("DeleteObject", bucket, "k1")>>
         ELSE <<CopyCommand(bucket, "k1", "k2")>>
    [] OTHER               -> <<>>

\* The handler of a storage route, once the middlewares called next().
storageHandler(route, bucketName, backendOk, copyOk, base) ==
  IF ~validateBucket(bucketName)
  THEN [base EXCEPT !.status = 400, !.error = "Invalid bucket"]
  ELSE LET actualBucket == getActualBucketName(bucketName)
       IN  IF actualBucket.threw
           THEN [base EXCEPT !.status = 400, !.error = "Invalid bucket"]
           ELSE IF backendOk /\ copyOk
           THEN [base EXCEPT !.status = 200,
                             !.calls = commandsOf(route, actualBucket.value, copyOk)]
           ELSE [base EXCEPT !.status = 500, !.error = "BackendError",
                             !.calls = commandsOf(route, actualBucket.value, copyOk)]

\* req.params[0] of the proxy route: nothing or a key after the bucket name.
FilePaths == {"", "k1"}
\* What s3Service.getObject gives the proxy: an object whose Body can be
\* streamed, one whose Body offers no way to stream it, one without Body, a
\* NoSuchKey error, another backend error.
S3Objects == {"stream", "unstreamable", "noBody", "NoSuchKey", "BackendError"}

CacheOneYear == "public, max-age=31536000"

\* The handler of GET /:bucketName/*. Cache-Control is set once getObject
\* has returned, before the Body is looked at; an error thrown by getObject
\* is answered by the catch block or by the error handler of index.ts.
proxyHandler(bucketName, filePath, s3Object, base) ==
  IF filePath = ""
  THEN [base EXCEPT !.status = 400, !.error = "No file specified"]
  ELSE IF ~validateBucket(bucketName)
  THEN [base EXCEPT !.status = 404, !.error = "Bucket not found"]
  ELSE LET actualBucket == getActualBucketName(bucketName)
       IN  IF actualBucket.threw
           THEN [base EXCEPT !.status = 404, !.error = "Bucket not found"]
           ELSE LET sent == [base EXCEPT !.calls =
                               <<Command("GetObject", actualBucket.value, filePath)>>]
                    cached == [sent EXCEPT !.cacheControl = CacheOneYear]
                IN  CASE s3Object = "NoSuchKey" ->
                           [sent EXCEPT !.status = 404, !.error = "File not found"]
                      [] s3Object = "BackendError" ->
                           [sent EXCEPT !.status = 500, !.error = "BackendError"]
                      [] s3Object = "stream" ->
                           [cached EXCEPT !.status = 200]
                      [] s3Object = "unstreamable" ->
                           [cached EXCEPT !.status = 500,
                                          !.error = "Unable to stream file"]
                      [] s3Object = "noBody" ->
                           [cached EXCEPT !.status = 404, !.error = "File not found"]

\* Most requests a limiter counts for a client in one window in SpecAPI.
MaxApiHits == 2
\* Offsets (ms) around each multiple of SESSION_TTL at which time is sampled.
MaxTtlOffset == 1
\* Multiples of SESSION_TTL that time may reach.
MaxTtlPeriods == 1

SessionInstants ==
  {k * SESSION_TTL + i : k \in 0..MaxTtlPeriods, i \in 0..MaxTtlOffset}

\* The token a request carries (cookie or bearer): none, one never issued,
\* or one a session has been created with.
RequestTokens == {Null} \cup {Some(t) : t \in (DOMAIN issued) \cup {UnknownToken}}

Passwords == {"missing", "wrong", "right"}
BucketParams == {<<"a">>, <<"b">>}

\* The inputs a route reads: the token where an auth middleware is mounted,
\* the bucket parameter on storage routes, the password on login.
TokensFor(route) == IF authOf(route) = "none" THEN {Null} ELSE RequestTokens
BucketsFor(route) ==
  IF route \in {"login", "listBuckets"} THEN {<<"a">>} ELSE BucketParams
PasswordsFor(route) == IF route = "login" THEN Passwords ELSE {"missing"}

\* The login handler: 400 without a password, 401 for a wrong one, otherwise
\* a new session and its token.
loginHandler(password, base) ==
  IF password = "missing"
  THEN /\ resp' = [base EXCEPT !.status = 400, !.error = "Password required"]
       /\ UNCHANGED <<sessions, issued>>
  ELSE IF password = "wrong"
  THEN /\ resp' = [base EXCEPT !.status = 401, !.error = "Invalid password"]
       /\ UNCHANGED <<sessions, issued>>
  ELSE \E token \in Tokens \ DOMAIN issued, sweep \in BOOLEAN :
         /\ sessions' = createSession(token, sweep)
         /\ issued' = MapSet(issued, token, now)
         /\ resp' = [base EXCEPT !.status = 200, !.token = Some(token)]

\* const token = req.cookies?.sessionToken || req.headers.authorization
\* ?.replace('Bearer ', ''): the cookie when there is one, else the bearer.
tokenOf(cookie, bearer) == IF cookie # Null THEN cookie ELSE bearer

\* Mutant: the limiter of a route behind authMiddleware runs before the
\* session check, so a request answered 401 has been counted.
HandleRequest_limiterFirst(client, route, cookie, bearer, bucketName, password) ==
  /\ phase = "serving"
  /\ LET req     == requestOf(route)
         token   == tokenOf(cookie, bearer)
         called  == authOf(route) # "none" /\ token # Null
         v       == IF called THEN validateToken(token[1])
                    ELSE [result |-> FALSE, sessions |-> sessions]
         authed  == called /\ v.result
         limiter == countingLimiter(route)
         base    == [NoResponse EXCEPT !.route = route, !.cookie = cookie,
                                       !.bearer = bearer, !.token = token,
                                       !.password = password, !.at = now,
                                       !.authenticated = authed]
     IN  /\ lastValidate' = IF called
                            THEN [token |-> token[1], result |-> v.result, at |-> now]
                            ELSE NoValidate
         /\ IF authOf(route) = "required" /\ ~authed
            THEN /\ counted[limiter][client].count < MaxApiHits
                 /\ countAndDecide(limiter, client, req)
                 /\ resp' = IF lastCheck'.outcome # "next"
                            THEN [base EXCEPT !.status = 429,
                                              !.error = "Too many requests",
                                              !.countedBy = limiter]
                            ELSE [base EXCEPT !.status = 401, !.error = "Unauthorized",
                                              !.countedBy = limiter]
                 /\ sessions' = v.sessions
                 /\ UNCHANGED issued
            ELSE /\ IF limiter = "none"
                    THEN UNCHANGED <<hits, shared, counted, lastCheck>>
                    ELSE /\ counted[limiter][client].count < MaxApiHits
                         /\ countAndDecide(limiter, client, req)
                 /\ IF limiter # "none" /\ lastCheck'.outcome # "next"
                    THEN /\ resp' = [base EXCEPT !.status = 429,
                                                 !.error = "Too many requests",
                                                 !.countedBy = limiter]
                         /\ sessions' = v.sessions
                         /\ UNCHANGED issued
                    ELSE IF route = "login"
                    THEN loginHandler(password, [base EXCEPT !.countedBy = limiter])
                    ELSE /\ sessions' = v.sessions
                         /\ UNCHANGED issued
                         /\ IF route = "listBuckets"
                            THEN resp' = [base EXCEPT !.status = 200]
                            ELSE IF route = "proxy"
                            THEN \E filePath \in FilePaths, s3Object \in S3Objects :
                                   resp' = proxyHandler(bucketName, filePath, s3Object,
                                                        base)
                            ELSE \E backendOk \in BOOLEAN,
                                    copyOk \in IF route = "move" THEN BOOLEAN ELSE {TRUE} :
                                   resp' = storageHandler(route, bucketName, backendOk,
                                             copyOk, [base EXCEPT !.countedBy = limiter])
         /\ swept' = swept \cup ((DOMAIN v.sessions) \ (DOMAIN sessions'))
  /\ UNCHANGED <<now, store, redis, inflight>>
  /\ UNCHANGED svcVars

\* One request, from its arrival to its response: the route's auth
\* middleware, then its limiter, then its handler.
HandleRequest(client, route, cookie, bearer, bucketName, password) ==
  /\ phase = "serving"
  /\ LET req     == requestOf(route)
         token   == tokenOf(cookie, bearer)
         called  == authOf(route) # "none" /\ token # Null
         v       == IF called THEN validateToken(token[1])
                    ELSE [result |-> FALSE, sessions |-> sessions]
         authed  == called /\ v.result
         limiter == countingLimiter(route)
         base    == [NoResponse EXCEPT !.route = route, !.cookie = cookie,
                                       !.bearer = bearer, !.token = token,
                                       !.password = password, !.at = now,
                                       !.authenticated = authed]
     IN  /\ lastValidate' = IF called
                            THEN [token |-> token[1], result |-> v.result, at |-> now]
                            ELSE NoValidate
         /\ IF authOf(route) = "required" /\ ~authed
            THEN /\ resp' = [base EXCEPT !.status = 401, !.error = "Unauthorized"]
                 /\ sessions' = v.sessions
                 /\ UNCHANGED <<issued, hits, shared, counted, lastCheck>>
            ELSE /\ IF limiter = "none"
                    THEN UNCHANGED <<hits, shared, counted, lastCheck>>
                    ELSE /\ counted[limiter][client].count < MaxApiHits
                         /\ countAndDecide(limiter, client, req)
                 /\ IF limiter # "none" /\ lastCheck'.outcome # "next"
                    THEN /\ resp' = [base EXCEPT !.status = 429,
                                                 !.error = "Too many requests",
                                                 !.countedBy = limiter]
                         /\ sessions' = v.sessions
                         /\ UNCHANGED issued
                    ELSE IF route = "login"
                    THEN loginHandler(password, [base EXCEPT !.countedBy = limiter])
                    ELSE /\ sessions' = v.sessions
                         /\ UNCHANGED issued
                         /\ IF route = "listBuckets"
                            THEN resp' = [base EXCEPT !.status = 200]
                            ELSE IF route = "proxy"
                            THEN \E filePath \in FilePaths, s3Object \in S3Objects :
                                   resp' = proxyHandler(bucketName, filePath, s3Object,
                                                        base)
                            ELSE \E backendOk \in BOOLEAN,
                                    copyOk \in IF route = "move" THEN BOOLEAN ELSE {TRUE} :
                                   resp' = storageHandler(route, bucketName, backendOk,
                                             copyOk, [base EXCEPT !.countedBy = limiter])
         /\ swept' = swept \cup ((DOMAIN v.sessions) \ (DOMAIN sessions'))
  /\ UNCHANGED <<now, store, redis, inflight>>
  /\ UNCHANGED svcVars

\* Every route, in local and in shared mode, within the first general-API
\* window (no session expires).
InitAPI ==
  /\ phase = "boot"
  /\ env \in [BUCKET_NAMES : {<<"a">>}, FRIENDLY_BUCKET_NAMES : {<<>>},
              RATE_LIMIT_WINDOW_MS : RateWindowValues,
              RATE_LIMIT_MAX_REQUESTS : {<<"1">>},
              REDIS_URL : BOOLEAN]
  /\ config = NoConfig
  /\ op = NoOp
  /\ InitLimiters

NextAPI ==
  \/ ValidateEnv
  \/ StartServer
  \/ \E t \in Instants : t < 60 * 1000 /\ AdvanceTime(t)
  \/ \E client \in Clients, route \in Routes :
       \E token \in TokensFor(route), bucketName \in BucketsFor(route),
          password \in PasswordsFor(route) :
         HandleRequest(client, route, token, Null, bucketName, password)

SpecAPI == InitAPI /\ [][NextAPI]_vars

\* Successful logins, a route behind optionalAuthMiddleware and one behind
\* authMiddleware, over the lifetime of a session.
SessionRoutes == {"login", "listBuckets", "upload"}

InitSession ==
  /\ phase = "boot"
  /\ env \in [BUCKET_NAMES : {<<"a">>}, FRIENDLY_BUCKET_NAMES : {<<>>},
              RATE_LIMIT_WINDOW_MS : {<<>>}, RATE_LIMIT_MAX_REQUESTS : {<<>>},
              REDIS_URL : {FALSE}]
  /\ config = NoConfig
  /\ op = NoOp
  /\ InitLimiters

NextSession ==
  \/ ValidateEnv
  \/ StartServer
  \/ \E t \in SessionInstants : AdvanceTime(t)
  \/ \E client \in Clients, route \in SessionRoutes :
       \E token \in TokensFor(route) :
         HandleRequest(client, route, token, Null, <<"a">>,
                       IF route = "login" THEN "right" ELSE "missing")

SpecSession == InitSession /\ [][NextSession]_vars

\* A session token whose TTL has elapsed at instant t.
ExpiredAt(token, t) == token \in DOMAIN issued /\ t >= issued[token] + SESSION_TTL

\* C17 (as claimed): for a session created at t0, validateToken(token) is
\* true at every t with t0 <= t < t0 + SESSION_TTL and false at every
\* t >= t0 + SESSION_TTL, whether or not a sweep has run.
C17_ValidUntilTtl ==
  lastValidate.token \in DOMAIN issued =>
    (lastValidate.result <=>
       /\ issued[lastValidate.token] <= lastValidate.at
       /\ lastValidate.at < issued[lastValidate.token] + SESSION_TTL)

\* C18 (as claimed): an upload, delete, move or copy request with no token,
\* an unknown token or an expired token is answered 401 'Unauthorized', the
\* same body in the three cases, and sends no command to the storage backend.
C18_UnauthorizedNoBackendCall ==
  (/\ resp.route \in {"upload", "delete", "move", "copy"}
   /\ \/ resp.token = Null
      \/ resp.token # Null /\ resp.token[1] = UnknownToken
      \/ resp.token # Null /\ ExpiredAt(resp.token[1], resp.at)) =>
    /\ resp.status = 401 /\ resp.error = "Unauthorized"
    /\ resp.calls = <<>>

\* The management operations: every API route but login and the read proxy.
ManagementRoutes == {"listBuckets", "listFiles", "upload", "delete", "move", "copy"}

\* C11 (as claimed): every management request that gets past authentication
\* is counted by the general-API limiter, and one counted beyond the quota of
\* 100 in a 60 s window is answered too-many-requests.
C11_ManagementCounted ==
  (resp.route \in ManagementRoutes /\ resp.status # 401) =>
    /\ resp.countedBy = "api"
    /\ lastCheck.totalHits > 100 => resp.status = 429

\* C12: a read-proxy request is counted by no limiter and never answered
\* too-many-requests, in local and in shared mode, whatever the limiters'
\* counters of the client have reached.
C12_ProxyNeverLimited ==
  resp.route = "proxy" =>
    /\ resp.status # 429
    /\ resp.countedBy = "none"

\* C12 witness: in shared mode the client's last counted request was answered
\* 429 by the auth limiter, and its read-proxy request was then served.
C12_Witness ==
  /\ store = "shared"
  /\ lastCheck.limiter = "auth" /\ lastCheck.outcome = "429 Too many requests"
  /\ counted["auth"]["c1"].count > QuotaOf("auth")
  /\ resp.route = "proxy" /\ resp.status = 200
  /\ resp.calls = <<Command("GetObject", <<"a">>, "k1")>>

\* The keys a bucket holds after a command the backend carried out.
applyCommand(objects, command) ==
  CASE command.cmd \in {"CopyObject", "PutObject"} -> objects \cup {command.Key}
    [] command.cmd = "DeleteObject"                -> objects \ {command.Key}
    [] OTHER                                       -> objects

\* The commands of the recorded call that the backend carried out: all of
\* them, or all but the last when the call ended in a backend error.
Succeeded(call) ==
  IF call.error = "BackendError"
  THEN SubSeq(call.calls, 1, Len(call.calls) - 1)
  ELSE call.calls

RECURSIVE objectsAfter(_, _)
objectsAfter(objects, commands) ==
  IF commands = <<>> THEN objects
  ELSE objectsAfter(applyCommand(objects, Head(commands)), Tail(commands))

\* C19 (as claimed): for a moveFile whose copy succeeded, from any bucket
\* content holding sourceKey: when the delete succeeded too, sourceKey is
\* gone and targetKey exists; when the delete failed, or the process stops
\* between the two steps, both keys exist, a failed delete is reported as
\* failure and no further command (cleanup of the copy) is sent.
C19_MoveOutcome ==
  (op.kind = "moveFile" /\ Len(Succeeded(op)) >= 1) =>
    LET sourceKey == op.calls[1].CopySource[2]
        targetKey == op.calls[1].Key
    IN  \A objects \in SUBSET Keys :
          sourceKey \in objects =>
            LET after == objectsAfter(objects, Succeeded(op))
            IN  IF Len(Succeeded(op)) = 2
                THEN sourceKey \notin after /\ targetKey \in after
                ELSE /\ sourceKey \in after /\ targetKey \in after
                     /\ op.pc = "done" => op.error # "" /\ Len(op.calls) = 2

\* C23: once the server is serving, no step (resolve, validate, display-name
\* lookup, gateway call) adds, removes or changes an entry of bucketNames,
\* bucketNameMap or actualBucketMap.
C23_RegistryReadOnly ==
  [][phase = "serving" =>
       /\ config'.bucketNames = config.bucketNames
       /\ config'.bucketNameMap = config.bucketNameMap
       /\ config'.actualBucketMap = config.actualBucketMap]_vars

\* C23 witness: with aliases configured, an alias has been resolved to its
\* real identifier and the maps still hold one entry per bucket.
C23_Witness ==
  /\ phase = "serving"
  /\ op.kind = "resolveBucketName" /\ op.value # Null
  /\ ~includes(config.bucketNames, op.name)
  /\ Cardinality(DOMAIN config.bucketNameMap) = Len(config.bucketNames)

\* C25: round trip: in every configuration that passed startup, for every
\* configured real identifier r, resolveBucketName(getFriendlyBucketName(r))
\* returns r.
C25_RoundTrip ==
  phase = "serving" =>
    \A i \in 1..Len(config.bucketNames) :
      resolveBucketName(getFriendlyBucketName(config.bucketNames[i]))
        = Some(config.bucketNames[i])

\* C26: moveFile never loses the object: for all sourceKey and targetKey,
\* sourceKey = targetKey included, and whichever step fails, in every state
\* during and after moveFile the content exists at sourceKey or at
\* targetKey, and after a successful moveFile it exists at targetKey.
C26_MoveNeverLoses ==
  (op.kind = "moveFile" /\ op.calls # <<>>) =>
    LET sourceKey == op.calls[1].CopySource[2]
        targetKey == op.calls[1].Key
    IN  \A objects \in SUBSET Keys :
          sourceKey \in objects =>
            LET after == objectsAfter(objects, Succeeded(op))
            IN  /\ sourceKey \in after \/ targetKey \in after
                /\ (op.pc = "done" /\ op.error = "") => targetKey \in after

\* ------------------------------------------ rate-limit overrides at startup
\* RATE_LIMIT_WINDOW_MS and RATE_LIMIT_MAX_REQUESTS as an operator may write
\* them: unset, a number, not a number, a number followed by other text.
RateWindowOverrides == {<<>>, <<"2">>, <<"x">>, <<"2", "x">>}
RateMaxOverrides == {<<>>, <<"1">>, <<"x">>, <<"1", "x">>, <<"1", ".", "5">>}

InitEnv ==
  /\ phase = "boot"
  /\ env \in [BUCKET_NAMES : {<<"a">>}, FRIENDLY_BUCKET_NAMES : {<<>>},
              RATE_LIMIT_WINDOW_MS : RateWindowOverrides,
              RATE_LIMIT_MAX_REQUESTS : RateMaxOverrides,
              REDIS_URL : BOOLEAN]
  /\ config = NoConfig
  /\ op = NoOp
  /\ InitLimiters

\* Login requests are sent to the limiters whose window and quota are
\* numbers.
NextEnv ==
  \/ ValidateEnv
  \/ StartServer
  \/ \E client \in Clients :
       /\ authLimiter.windowMs # NaN /\ authLimiter.max # NaN
       /\ RateLimitMiddleware("auth", client, LoginRequest)

SpecEnv == InitEnv /\ [][NextEnv]_vars

\* A value that is set and is not a decimal number.
Malformed(value) ==
  value # <<>> /\ \E i \in 1..Len(value) : value[i] \notin Digits

\* C24: a configuration whose rate-limit window or quota override is not a
\* valid number is rejected at startup (the process never gets past loading
\* the configuration), so the auth limiter is never built with a window or
\* quota that is not a number.
C24_MalformedRateFatal ==
  /\ (Malformed(env.RATE_LIMIT_WINDOW_MS) \/ Malformed(env.RATE_LIMIT_MAX_REQUESTS))
       => phase \in {"boot", "failed"}
  /\ phase \in {"configured", "serving"}
       => authLimiter.windowMs # NaN /\ authLimiter.max # NaN

\* C21: the sweep of createSession is not a security boundary: every
\* validateToken call returns what it returns on a store that was never
\* swept (true exactly for a token a session was created with and whose
\* expiry is not before the instant of the call), and a sweep removes only
\* sessions whose expiry has passed.
C21_SweepNotBoundary ==
  /\ lastValidate.token # "none" =>
       (lastValidate.result <=>
          /\ lastValidate.token \in DOMAIN issued
          /\ ~(issued[lastValidate.token] + SESSION_TTL < lastValidate.at))
  /\ \A token \in swept : issued[token] + SESSION_TTL < now

\* C21 witness: a sweep deleted an expired session while another session
\* stayed in the store, and a later validateToken of the swept token
\* returned false.
C21_Witness ==
  /\ lastValidate.token \in swept /\ ~lastValidate.result
  /\ \E token \in DOMAIN sessions : token \notin swept

\* C22: a session's expiry is its creation time plus SESSION_TTL, and no
\* step (validateToken through authMiddleware or optionalAuthMiddleware,
\* another createSession, a sweep) changes the expiry of a session that
\* stays in the store.
C22_ExpiryFixed ==
  /\ [](\A token \in DOMAIN sessions :
          sessions[token].expiry = issued[token] + SESSION_TTL)
  /\ [][\A token \in (DOMAIN sessions) \cap (DOMAIN sessions') :
          sessions'[token].expiry = sessions[token].expiry]_vars

\* C22 witness: a session was validated after the instant it was created at,
\* through optionalAuthMiddleware, a second session has been created since,
\* and the first still expires at its creation time plus SESSION_TTL.
C22_Witness ==
  \E token \in DOMAIN sessions :
    /\ lastValidate = [token |-> token, result |-> TRUE, at |-> lastValidate.at]
    /\ lastValidate.at > issued[token]
    /\ resp.route = "listBuckets" /\ resp.authenticated
    /\ \E other \in DOMAIN sessions : issued[other] > issued[token]
    /\ sessions[token].expiry = issued[token] + SESSION_TTL

\* ------------------------------------------- cookie and bearer credentials
\* Login, a route behind optionalAuthMiddleware and one behind
\* authMiddleware; a request may carry a sessionToken cookie, an
\* Authorization Bearer header, both or neither.
BearerRoutes == {"login", "listBuckets", "upload"}

NextBearer ==
  \/ ValidateEnv
  \/ StartServer
  \/ \E t \in SessionInstants : AdvanceTime(t)
  \/ \E client \in Clients, route \in BearerRoutes :
       \E cookie \in TokensFor(route), bearer \in TokensFor(route),
          password \in PasswordsFor(route) :
         HandleRequest(client, route, cookie, bearer, <<"a">>, password)

SpecBearer == InitSession /\ [][NextBearer]_vars

\* C27: a request to a route behind authMiddleware or optionalAuthMiddleware
\* whose Authorization Bearer header carries the token of a session that has
\* not expired is authenticated, whatever sessionToken cookie (absent,
\* unknown, expired) comes with it.
C27_BearerAuthenticates ==
  (/\ authOf(resp.route) # "none"
   /\ resp.bearer # Null
   /\ resp.bearer[1] \in DOMAIN issued
   /\ resp.at < issued[resp.bearer[1]] + SESSION_TTL)
    => resp.authenticated

\* A step that answers a login request (time steps leave resp as it was).
LoginStep == phase = "serving" /\ now' = now /\ resp'.route = "login"

\* C28: on the login endpoint the auth limiter is checked before the
\* password: every login attempt, whatever its password, is counted by the
\* auth limiter (its counter for the client is incremented); an attempt the
\* limiter rejects creates no session even with the right password; and a
\* session is created only by a login that passed the limiter and supplied
\* the configured password.
C28_LimiterBeforePassword ==
  /\ [][LoginStep =>
          /\ lastCheck'.limiter = "auth" /\ ~lastCheck'.skipped
          /\ lastCheck'.totalHits >= 1
          /\ <<hits, shared>>' # <<hits, shared>>
          /\ resp'.countedBy = "auth"]_vars
  /\ [][(LoginStep /\ lastCheck'.outcome # "next") =>
          /\ resp'.status = 429
          /\ sessions' = sessions /\ issued' = issued]_vars
  /\ [][(DOMAIN sessions') \ (DOMAIN sessions) # {} =>
          /\ LoginStep
          /\ lastCheck'.limiter = "auth" /\ lastCheck'.outcome = "next"
          /\ resp'.password = "right" /\ resp'.status = 200]_vars

\* C28 witness: after a successful login used up the quota, a login with the
\* right password was answered 429 and no second session exists.
C28_Witness ==
  /\ resp.route = "login" /\ resp.password = "right" /\ resp.status = 429
  /\ lastCheck.limiter = "auth" /\ lastCheck.totalHits > QuotaOf("auth")
  /\ Cardinality(DOMAIN sessions) = 1

\* The routes behind authMiddleware and the general-API limiter.
ProtectedRoutes == {"upload", "delete", "move", "copy"}

\* C29: on upload, delete, move and copy the session check runs before the
\* general-API limiter: a request that fails authentication is answered
\* 401 Unauthorized, and the step leaves every limiter counter of its
\* client as it was (no general-API quota is consumed).
C29_AuthBeforeLimiter ==
  [][(/\ phase = "serving" /\ now' = now
      /\ resp'.route \in ProtectedRoutes /\ ~resp'.authenticated)
       => /\ resp'.status = 401 /\ resp'.error = "Unauthorized"
          /\ resp'.countedBy = "none" /\ resp'.calls = <<>>
          /\ hits' = hits /\ shared' = shared /\ counted' = counted]_vars

\* C29 witness: a client whose authenticated request was counted by the
\* general-API limiter then sent a request with an unknown token, which was
\* answered 401 while the counter stayed at one.
C29_Witness ==
  /\ resp.route \in ProtectedRoutes /\ resp.token = Some(UnknownToken)
  /\ resp.status = 401
  /\ lastCheck.limiter = "api" /\ lastCheck.totalHits = 1
  /\ counted["api"]["c1"].count = 1

\* C30: the read proxy attaches Cache-Control: public, max-age=31536000 only
\* to successful object responses: no error response of the proxy (no file
\* specified, bucket not found, file not found, unable to stream, backend
\* failure) carries it.
C30_CacheOnlyOnSuccess ==
  resp.route = "proxy" =>
    (resp.cacheControl = CacheOneYear <=> resp.status = 200)
====
